---------------------------- MODULE Spec2Model ----------------------------
(***************************************************************************)
(* A model of the Spelling Bee solver of src/src/game.rs and of the run    *)
(* of src/src/main.rs: puzzle normalisation (TryFrom<&Game>), the word     *)
(* evaluator (Guess::eval_points) and the four solving strategies          *)
(* (BruteForce, ParallelBruteForce, LetterMap, ParallelLetterMap).         *)
(*                                                                         *)
(* A Letter is one of the strings of Letters, a Word is a sequence of      *)
(* Letters.  The letters are ASCII upper case, as those of main.rs:16 and  *)
(* of the word list are, so String::len() (bytes) and chars().count()      *)
(* agree and both are Len(word).  A dictionary holds words of at least 4   *)
(* letters, as Dictionary::scrape builds it (game.rs:136).                 *)
(***************************************************************************)
EXTENDS Integers, Sequences, FiniteSets, TLC

VARIABLES
    dict,             \* Dictionary.words: a set of Words
    game,             \* the Game handed to GameSolver::solve (main.rs:16)
    todo,             \* the strategies main has still to construct, in order
    solver,           \* the strategy of the live GameSolver, or "none"
    letter_to_words,  \* the index of the live strategy (LetterMap / ParallelLetterMap)
    phase,            \* where the live solver is: "init", "ready", "par_iter", "returned", "failed"
    processed,        \* the GameProcessed of the running / last solve, or NoGame
    results,          \* per strategy: the value its last solve returned
    called,           \* the strategies whose SolveStrategy::solve has been entered
    chunks,           \* par_iter: the pieces the input was split into
    outs,             \* par_iter: per piece, whether it is folded and the pairs it produced
    merged,           \* par_iter: the pairs handed to HashMap::extend, in order
    evals,            \* par_iter: per word, how often eval_points ran on it in this solve
    first,            \* the first solve an instance answered: its puzzle and its result
    guessed_word,     \* Guess.guessed_word
    outcome           \* what eval_points returned for guessed_word

vars == <<dict, game, todo, solver, letter_to_words, phase, processed, results,
          called, chunks, outs, merged, evals, first, guessed_word, outcome>>

----------------------------------------------------------------------------
(* Bounds of the model *)

MaxWordLen == 5

MaxDictSize == 2

MaxOthersLen == 2

MaxChunks == 2

(* Constants of the program *)

MinWordLen == 4

BasePoints == 1

PangramBonus == 7

----------------------------------------------------------------------------
(* The input domains *)

Letters == {"A", "C", "T"}

SeqsUpTo(S, n) == UNION {[1..k -> S] : k \in 0..n}

Words == SeqsUpTo(Letters, MaxWordLen)

Vocabulary ==
    { <<"T", "A", "C", "T">>, <<"A", "C", "A", "C", "A">>, <<"A", "T", "T", "A">> }

Dicts == {d \in SUBSET Vocabulary : Cardinality(d) <= MaxDictSize}

Games == [center_letter : Letters, non_center_letters : SeqsUpTo(Letters, MaxOthersLen)]

GamesProcessed ==
    UNION {{[center_letter |-> c, non_center_letters |-> o] : o \in SUBSET (Letters \ {c})}
           : c \in Letters}

Strategies == {"BruteForce", "ParallelBruteForce", "LetterMap", "ParallelLetterMap"}

MainOrder == <<"BruteForce", "ParallelBruteForce", "LetterMap", "ParallelLetterMap">>

Range(s) == {s[i] : i \in DOMAIN s}

(* The orders in which a HashSet may hand out its elements. *)
Orders(S) == {f \in [1..Cardinality(S) -> S] : Range(f) = S}

----------------------------------------------------------------------------
(* GameProcessed and TryFrom<&Game> *)

NoGame == [center_letter |-> "", non_center_letters |-> {}]

(* letter_count without the center letter *)
letter_count_no_center(g) == Cardinality(g.non_center_letters)

letter_count(g) == Cardinality(g.non_center_letters) + 1

(* a collect that skips the first letter of the list *)
CollectHashSet_skip_first(s) == {s[i] : i \in 2..Len(s)}

(* .iter().copied().collect::<HashSet<_>>() *)
RECURSIVE CollectHashSet(_)
CollectHashSet(s) ==
    IF s = <<>> THEN {}
    ELSE CollectHashSet(SubSeq(s, 1, Len(s) - 1)) \cup {s[Len(s)]}

(* try_from without the ensure! *)
try_from_unchecked(g) ==
    [ok |-> TRUE,
     value |-> [center_letter |-> g.center_letter,
                non_center_letters |-> Range(g.non_center_letters) \ {g.center_letter}]]

try_from(g) ==
    IF \E i \in DOMAIN g.non_center_letters : g.non_center_letters[i] = g.center_letter
    THEN [ok |-> FALSE, value |-> NoGame]
    ELSE [ok |-> TRUE,
          value |-> [center_letter |-> g.center_letter,
                     non_center_letters |-> CollectHashSet(g.non_center_letters)]]

----------------------------------------------------------------------------
(* Guess::eval_points *)

Ok(p) == [ok |-> TRUE, err |-> "", letter |-> "", points |-> p]

Err(e, c) == [ok |-> FALSE, err |-> e, letter |-> c, points |-> 0]

NoOutcome == [ok |-> FALSE, err |-> "none", letter |-> "", points |-> 0]

(* The for loop over the letters of the word, from letter i on. *)
RECURSIVE ScanLetters(_, _, _, _, _)
ScanLetters(word, i, center_letter_count, guessed_letters, g) ==
    IF i > Len(word)
    THEN [disallowed |-> "", center_letter_count |-> center_letter_count,
          guessed_letters |-> guessed_letters]
    ELSE LET c == word[i] IN
         IF c = g.center_letter
         THEN ScanLetters(word, i + 1, center_letter_count + 1, guessed_letters \cup {c}, g)
         ELSE IF c \in g.non_center_letters
         THEN ScanLetters(word, i + 1, center_letter_count, guessed_letters \cup {c}, g)
         ELSE [disallowed |-> c, center_letter_count |-> center_letter_count,
               guessed_letters |-> guessed_letters]

Points(word, is_pangram) ==
    BasePoints + (Len(word) - MinWordLen) + (IF is_pangram THEN PangramBonus ELSE 0)

(* eval_points looking the word up before it checks the length *)
eval_points_unknown_first(word, g, d) ==
    IF word \notin d THEN Err("UnknownWord", "")
    ELSE IF Len(word) < MinWordLen THEN Err("TooShort", "")
    ELSE LET scan == ScanLetters(word, 1, 0, {}, g) IN
         IF scan.disallowed # "" THEN Err("DisallowedLetter", scan.disallowed)
         ELSE IF scan.center_letter_count = 0 THEN Err("MissingCenterLetter", "")
         ELSE Ok(Points(word, letter_count(g) = Cardinality(scan.guessed_letters)))

(* eval_points without the center-letter rule *)
eval_points_no_center(word, g, d) ==
    IF Len(word) < MinWordLen THEN Err("TooShort", "")
    ELSE IF word \notin d THEN Err("UnknownWord", "")
    ELSE LET scan == ScanLetters(word, 1, 0, {}, g) IN
         IF scan.disallowed # "" THEN Err("DisallowedLetter", scan.disallowed)
         ELSE Ok(Points(word, letter_count(g) = Cardinality(scan.guessed_letters)))

eval_points(word, g, d) ==
    IF Len(word) < MinWordLen THEN Err("TooShort", "")
    ELSE IF word \notin d THEN Err("UnknownWord", "")
    ELSE LET scan == ScanLetters(word, 1, 0, {}, g) IN
         IF scan.disallowed # "" THEN Err("DisallowedLetter", scan.disallowed)
         ELSE IF scan.center_letter_count = 0 THEN Err("MissingCenterLetter", "")
         ELSE Ok(Points(word, letter_count(g) = Cardinality(scan.guessed_letters)))

----------------------------------------------------------------------------
(* HashMap<&Word, Points> and the iterator adaptors the strategies use *)

EmptyMap == [w \in {} |-> 0]

(* HashMap::insert: a key already present gets the new value. *)
Insert(m, k, v) == [w \in DOMAIN m \cup {k} |-> IF w = k THEN v ELSE m[w]]

(* HashMap::extend / collect::<HashMap<_, _>>() of a sequence of pairs. *)
RECURSIVE Extend(_, _)
Extend(m, pairs) ==
    IF pairs = <<>> THEN m
    ELSE Extend(Insert(m, Head(pairs)[1], Head(pairs)[2]), Tail(pairs))

(* .filter_map(|word| Guess::new(word).eval_points(game, dict).ok().map(|points| (word, points))) *)
RECURSIVE FilterMap(_, _, _)
FilterMap(items, g, d) ==
    IF items = <<>> THEN <<>>
    ELSE LET r == eval_points(Head(items), g, d) IN
         (IF r.ok THEN << <<Head(items), r.points>> >> ELSE <<>>)
             \o FilterMap(Tail(items), g, d)

NoResult == [kind |-> "none", word_to_points |-> EmptyMap]

InvalidGame == [kind |-> "err", word_to_points |-> EmptyMap]

GameResult(m) == [kind |-> "ok", word_to_points |-> m]

----------------------------------------------------------------------------
(* The strategies: construction *)

EmptyIndex == [l \in {} |-> {}]

(* letter_to_words.entry(letter).or_insert_with(|| HashSet::new()).insert(word) *)
EntryInsert(index, letter, word) ==
    [l \in DOMAIN index \cup {letter} |->
        IF l = letter
        THEN (IF letter \in DOMAIN index THEN index[letter] ELSE {}) \cup {word}
        ELSE index[l]]

(* an insert(letter, vec![word]) that replaces the bucket *)
EntryPush_overwrite(index, letter, word) ==
    [l \in DOMAIN index \cup {letter} |-> IF l = letter THEN <<word>> ELSE index[l]]

(* letter_to_words.entry(letter).or_insert_with(|| Vec::new()).push(word) *)
EntryPush(index, letter, word) ==
    [l \in DOMAIN index \cup {letter} |->
        IF l = letter
        THEN Append(IF letter \in DOMAIN index THEN index[letter] ELSE <<>>, word)
        ELSE index[l]]

(* for letter in word.chars(), from letter i on *)
RECURSIVE LetterMapChars(_, _, _)
LetterMapChars(index, word, i) ==
    IF i > Len(word) THEN index
    ELSE LetterMapChars(EntryInsert(index, word[i], word), word, i + 1)

RECURSIVE ParallelLetterMapChars(_, _, _)
ParallelLetterMapChars(index, word, i) ==
    IF i > Len(word) THEN index
    ELSE ParallelLetterMapChars(EntryPush(index, word[i], word), word, i + 1)

(* for word in &dict.words, the set handing its words out in `order` *)
RECURSIVE LetterMapWords(_, _)
LetterMapWords(index, order) ==
    IF order = <<>> THEN index
    ELSE LetterMapWords(LetterMapChars(index, Head(order), 1), Tail(order))

RECURSIVE ParallelLetterMapWords(_, _)
ParallelLetterMapWords(index, order) ==
    IF order = <<>> THEN index
    ELSE ParallelLetterMapWords(ParallelLetterMapChars(index, Head(order), 1), Tail(order))

(* an index that files each word under its first letter only *)
LetterMap_new_first_letter(order) ==
    [l \in {w[1] : w \in Range(order)} |-> {w \in Range(order) : w[1] = l}]

LetterMap_new(order) == LetterMapWords(EmptyIndex, order)

ParallelLetterMap_new(order) == ParallelLetterMapWords(EmptyIndex, order)

----------------------------------------------------------------------------
(* The strategies: solve *)

BruteForce_solve(order, g, d) == GameResult(Extend(EmptyMap, FilterMap(order, g, d)))

(* self.letter_to_words.get(&game.center_letter).into_iter().flatten() *)
LetterMapBucket(index, g) ==
    IF g.center_letter \in DOMAIN index THEN index[g.center_letter] ELSE {}

(* the panic of indexing a HashMap with a key it does not hold *)
Panicked == [kind |-> "panic", word_to_points |-> EmptyMap]

(* a solve that indexes the map, self.letter_to_words[&game.center_letter] *)
LetterMap_solve_indexing(index, order, g, d) ==
    IF g.center_letter \in DOMAIN index
    THEN GameResult(Extend(EmptyMap, FilterMap(order, g, d)))
    ELSE Panicked

LetterMap_solve(index, order, g, d) == GameResult(Extend(EmptyMap, FilterMap(order, g, d)))

(* The pieces a parallel iterator may cut `items` into: at most k contiguous,
   non-empty pieces (one empty piece for an empty input). *)
RECURSIVE Chunkings(_, _)
Chunkings(items, k) ==
    {<<items>>} \cup
    (IF k > 1
     THEN UNION {{<<SubSeq(items, 1, i)>> \o rest :
                    rest \in Chunkings(SubSeq(items, i + 1, Len(items)), k - 1)}
                 : i \in 1..(Len(items) - 1)}
     ELSE {})

Unfolded(split) == [c \in DOMAIN split |-> [folded |-> FALSE, pairs |-> <<>>]]

(* The LinkedList<Vec<_>> the pieces reduce to: their outputs appended in the
   order of the pieces. *)
RECURSIVE ListAppend(_, _)
ListAppend(o, c) ==
    IF c > Len(o) THEN <<>> ELSE o[c].pairs \o ListAppend(o, c + 1)

(* a reduction that keeps the first piece's output only *)
CollectPairs_first_piece(o) == o[1].pairs

CollectPairs(o) == ListAppend(o, 1)

Occurrences(items, w) == Cardinality({i \in DOMAIN items : items[i] = w})

NoEvals == [w \in Vocabulary |-> 0]

NoFirst == [set |-> FALSE, game |-> NoGame, result |-> NoResult, between |-> FALSE]

(* The record of an instance's first answer; `between` notes that it has since
   answered another puzzle. *)
Recorded(g, r) ==
    IF first.set
    THEN [first EXCEPT !.between = @ \/ g # first.game]
    ELSE [set |-> TRUE, game |-> g, result |-> r, between |-> FALSE]

----------------------------------------------------------------------------
(* The run: main constructs one GameSolver after the other and has it solve *)

NoPar == /\ chunks' = <<>>
         /\ outs' = <<>>
         /\ merged' = <<>>
         /\ evals' = NoEvals

(* A sequential solve returns r for puzzle g. *)
Return(s, g, r) ==
    /\ results' = [results EXCEPT ![s] = r]
    /\ first' = Recorded(g, r)
    /\ phase' = "returned"

(* A parallel solve hands `split` to the pool. *)
ParIter(split) ==
    /\ chunks' = split
    /\ outs' = Unfolded(split)
    /\ merged' = <<>>
    /\ evals' = NoEvals
    /\ phase' = "par_iter"
    /\ UNCHANGED <<results, first>>

(* GameSolver::new, S::new(dict) *)
New ==
    /\ phase \in {"init", "returned"}
    /\ todo # <<>>
    /\ solver' = Head(todo)
    /\ todo' = Tail(todo)
    /\ \E order \in Orders(dict) :
          letter_to_words' =
              CASE Head(todo) = "LetterMap" -> LetterMap_new(order)
                [] Head(todo) = "ParallelLetterMap" -> ParallelLetterMap_new(order)
                [] OTHER -> EmptyIndex
    /\ phase' = "ready"
    /\ first' = NoFirst
    /\ UNCHANGED <<dict, game, processed, results, called, chunks, outs, merged,
                   evals, guessed_word, outcome>>

(* SolveStrategy::solve of strategy s on the GameProcessed g *)
BruteForceSolve(g) ==
    /\ solver = "BruteForce"
    /\ \E order \in Orders(dict) : Return(solver, g, BruteForce_solve(order, g, dict))
    /\ NoPar

ParallelBruteForceSolve(g) ==
    /\ solver = "ParallelBruteForce"
    /\ \E order \in Orders(dict) : \E split \in Chunkings(order, MaxChunks) : ParIter(split)

LetterMapSolve(g) ==
    /\ solver = "LetterMap"
    /\ \E order \in Orders(LetterMapBucket(letter_to_words, g)) :
          Return(solver, g, LetterMap_solve(letter_to_words, order, g, dict))
    /\ NoPar

ParallelLetterMapSolve(g) ==
    /\ solver = "ParallelLetterMap"
    /\ \/ /\ g.center_letter \in DOMAIN letter_to_words
          /\ \E split \in Chunkings(letter_to_words[g.center_letter], MaxChunks) :
                ParIter(split)
       \/ /\ g.center_letter \notin DOMAIN letter_to_words
          /\ Return(solver, g, GameResult(EmptyMap))
          /\ NoPar

StrategySolve(g) ==
    /\ processed' = g
    /\ called' = called \cup {solver}
    /\ \/ BruteForceSolve(g)
       \/ ParallelBruteForceSolve(g)
       \/ LetterMapSolve(g)
       \/ ParallelLetterMapSolve(g)
    /\ UNCHANGED <<dict, game, todo, solver, letter_to_words, guessed_word, outcome>>

(* GameSolver::solve on main's game: called once on each solver (main.rs:18-28);
   on Err the `?` makes main return. *)
GameSolverSolve ==
    /\ phase = "ready"
    /\ LET p == try_from(game) IN
       \/ /\ ~p.ok
          /\ results' = [results EXCEPT ![solver] = InvalidGame]
          /\ phase' = "failed"
          /\ UNCHANGED <<dict, game, todo, solver, letter_to_words, processed, called,
                         chunks, outs, merged, evals, first, guessed_word, outcome>>
       \/ /\ p.ok
          /\ StrategySolve(p.value)

(* SolveStrategy::solve called on the live strategy with any puzzle, any
   number of times. *)
RepeatedSolve ==
    /\ phase \in {"ready", "returned"}
    /\ \E g \in GamesProcessed : StrategySolve(g)

(* A pool thread folds piece c of the input. *)
Fold(c) ==
    /\ phase = "par_iter"
    /\ ~outs[c].folded
    /\ outs' = [outs EXCEPT ![c] = [folded |-> TRUE,
                                    pairs |-> FilterMap(chunks[c], processed, dict)]]
    /\ evals' = [w \in Vocabulary |-> evals[w] + Occurrences(chunks[c], w)]
    /\ UNCHANGED <<dict, game, todo, solver, letter_to_words, phase, processed, results,
                   called, chunks, merged, first, guessed_word, outcome>>

(* The join: every piece is folded, the pairs go into the HashMap. *)
Collect ==
    /\ phase = "par_iter"
    /\ \A c \in DOMAIN outs : outs[c].folded
    /\ merged' = CollectPairs(outs)
    /\ Return(solver, processed, GameResult(Extend(EmptyMap, CollectPairs(outs))))
    /\ UNCHANGED <<dict, game, todo, solver, letter_to_words, processed, called,
                   chunks, outs, evals, guessed_word, outcome>>

(* Guess::new(word).eval_points(game, dict) *)
Guess ==
    /\ phase = "guess"
    /\ outcome' = eval_points(guessed_word, processed, dict)
    /\ phase' = "guessed"
    /\ UNCHANGED <<dict, game, todo, solver, letter_to_words, processed, results, called,
                   chunks, outs, merged, evals, first, guessed_word>>

----------------------------------------------------------------------------
(* The specifications *)

InitRest ==
    /\ solver = "none"
    /\ letter_to_words = EmptyIndex
    /\ results = [s \in Strategies |-> NoResult]
    /\ called = {}
    /\ chunks = <<>>
    /\ outs = <<>>
    /\ merged = <<>>
    /\ evals = NoEvals
    /\ first = NoFirst
    /\ outcome = NoOutcome

(* main.rs for any dictionary and any puzzle *)
Init ==
    /\ dict \in Dicts
    /\ game \in Games
    /\ todo = MainOrder
    /\ phase = "init"
    /\ processed = NoGame
    /\ guessed_word = <<>>
    /\ InitRest

Next == New \/ GameSolverSolve \/ (\E c \in DOMAIN outs : Fold(c)) \/ Collect

Spec == Init /\ [][Next]_vars

(* One strategy instance, solving again and again *)
InitRepeat ==
    /\ dict \in Dicts
    /\ game = [center_letter |-> "", non_center_letters |-> <<>>]
    /\ todo \in {<<s>> : s \in Strategies}
    /\ phase = "init"
    /\ processed = NoGame
    /\ guessed_word = <<>>
    /\ InitRest

NextRepeat == New \/ RepeatedSolve \/ (\E c \in DOMAIN outs : Fold(c)) \/ Collect

SpecRepeat == InitRepeat /\ [][NextRepeat]_vars

(* One GameSolver of any strategy, given any Game *)
InitSolver ==
    /\ dict \in Dicts
    /\ game \in Games
    /\ todo \in {<<s>> : s \in Strategies}
    /\ phase = "init"
    /\ processed = NoGame
    /\ guessed_word = <<>>
    /\ InitRest

SpecSolver == InitSolver /\ [][Next]_vars

(* One evaluation of one guess *)
InitEval ==
    /\ dict \in Dicts
    /\ game = [center_letter |-> "", non_center_letters |-> <<>>]
    /\ todo = <<>>
    /\ phase = "guess"
    /\ processed \in GamesProcessed
    /\ guessed_word \in Words
    /\ InitRest

NextEval == Guess

SpecEval == InitEval /\ [][NextEval]_vars

----------------------------------------------------------------------------
(* The rules of the puzzle, stated on their own *)

Permitted(g) == {g.center_letter} \cup g.non_center_letters

IllegalAt(word, g) == {i \in DOMAIN word : word[i] \notin Permitted(g)}

Min(S) == CHOOSE x \in S : \A y \in S : x <= y

ValidWords(g, d) ==
    {w \in d : /\ Len(w) >= 4
               /\ \A i \in DOMAIN w : w[i] \in Permitted(g)
               /\ \E i \in DOMAIN w : w[i] = g.center_letter}

Indexed == {"LetterMap", "ParallelLetterMap"}

Parallel == {"ParallelBruteForce", "ParallelLetterMap"}

(* The words filed under letter l in the index of the live strategy. *)
BucketSet(l) ==
    IF l \notin DOMAIN letter_to_words THEN {}
    ELSE IF solver = "ParallelLetterMap" THEN Range(letter_to_words[l])
    ELSE letter_to_words[l]

SameLetters(g1, g2) ==
    /\ g1.center_letter = g2.center_letter
    /\ Range(g1.non_center_letters) = Range(g2.non_center_letters)

----------------------------------------------------------------------------
(* The claims *)

(* C1: on the same dictionary and puzzle, the four strategies return the same
   (word, points) pairs, whatever the order the sets hand their words out in
   and however the parallel iterators split and schedule their input. *)
C1_StrategiesAgree ==
    \A s1, s2 \in Strategies :
        (results[s1].kind = "ok" /\ results[s2].kind = "ok")
            => results[s1].word_to_points = results[s2].word_to_points

C1_Witness ==
    /\ \A s \in Strategies : results[s].kind = "ok"
    /\ Cardinality(DOMAIN results["ParallelLetterMap"].word_to_points) = 2
    /\ Len(chunks) = 2
    /\ \E w \in dict : evals[w] = 2

(* C2: an accepted word scores 1 + (length - 4), plus 7 exactly when it uses
   as many distinct letters as the puzzle permits (|others| + 1); a word that
   misses a permitted letter gets no bonus, and a non-pangram of length 4
   scores 1. *)
C2_Points ==
    (phase = "guessed" /\ outcome.ok) =>
        LET used == Range(guessed_word)
            is_pangram == Cardinality(used) = Cardinality(processed.non_center_letters) + 1
        IN /\ outcome.points = 1 + (Len(guessed_word) - 4) + (IF is_pangram THEN 7 ELSE 0)
           /\ (Permitted(processed) \ used # {})
                 => outcome.points = 1 + (Len(guessed_word) - 4)
           /\ (~is_pangram /\ Len(guessed_word) = 4) => outcome.points = 1

C2_Witness ==
    /\ phase = "guessed"
    /\ outcome.ok
    /\ outcome.points = 9
    /\ Len(guessed_word) = 5

(* C3: the rules apply in the order length, dictionary, legal letters, center
   letter, and the first rule that fails gives the rejection; the disallowed
   letter reported is the first one in the word. *)
C3_RuleOrder ==
    phase = "guessed" =>
        LET w == guessed_word
            illegal == IllegalAt(w, processed)
        IN /\ Len(w) < 4 => outcome = Err("TooShort", "")
           /\ (Len(w) >= 4 /\ w \notin dict) => outcome = Err("UnknownWord", "")
           /\ (Len(w) >= 4 /\ w \in dict /\ illegal # {})
                 => outcome = Err("DisallowedLetter", w[Min(illegal)])
           /\ outcome.err = "MissingCenterLetter"
                 <=> /\ Len(w) >= 4
                     /\ w \in dict
                     /\ illegal = {}
                     /\ processed.center_letter \notin Range(w)

C3_Witness ==
    /\ phase = "guessed"
    /\ outcome.err = "DisallowedLetter"
    /\ processed.center_letter \notin Range(guessed_word)
    /\ Cardinality({guessed_word[i] : i \in IllegalAt(guessed_word, processed)}) = 2
    /\ outcome.letter = guessed_word[1]

(* C4: GameSolver::solve fails, without entering the strategy's solve and
   without a result, exactly when the center letter is in the non-center list;
   on every other puzzle what it returns is a result mapping. *)
C4_InvalidGame ==
    LET invalid == game.center_letter \in Range(game.non_center_letters) IN
    /\ phase = "failed" => (invalid /\ results[solver] = InvalidGame)
    /\ invalid => (called = {} /\ phase \in {"init", "ready", "failed"}
                   /\ \A s \in Strategies : results[s].kind # "ok")
    /\ ~invalid => (phase # "failed" /\ \A s \in Strategies : results[s].kind # "err")
    /\ phase = "returned" => results[solver].kind = "ok"

C4_Witness ==
    /\ phase = "failed"
    /\ solver = "ParallelLetterMap"
    /\ dict # {}
    /\ Len(game.non_center_letters) = 2
    /\ game.non_center_letters[1] # game.center_letter
    /\ game.non_center_letters[2] = game.center_letter

(* C5: the keys of every strategy's result are exactly the dictionary words of
   length >= 4 whose letters are all permitted and which contain the center
   letter. *)
C5_ExactlyTheValidWords ==
    \A s \in Strategies :
        results[s].kind = "ok"
            => DOMAIN results[s].word_to_points = ValidWords(processed, dict)

C5_Witness ==
    /\ \A s \in Strategies : results[s].kind = "ok"
    /\ DOMAIN results["LetterMap"].word_to_points # {}
    /\ DOMAIN results["LetterMap"].word_to_points # dict

(* C6: in a parallel solve every candidate word (the dictionary for
   ParallelBruteForce, the words containing the center letter for
   ParallelLetterMap) is evaluated exactly once, the merge meets no key twice
   and no accepted word is dropped. *)
C6_EvaluatedOnce ==
    (phase = "returned" /\ solver \in Parallel /\ chunks # <<>>) =>
        LET candidates ==
                IF solver = "ParallelBruteForce" THEN dict
                ELSE {w \in dict : processed.center_letter \in Range(w)}
        IN /\ \A w \in candidates : evals[w] = 1
           /\ \A i, j \in DOMAIN merged : merged[i][1] = merged[j][1] => i = j
           /\ DOMAIN results[solver].word_to_points = ValidWords(processed, dict)

(* C7: a solve changes neither the dictionary nor the index of the instance,
   and an instance that solves a puzzle again, with or without other puzzles
   in between, returns what it returned the first time. *)
C7_Idempotent ==
    /\ [](( phase = "returned" /\ first.set /\ processed = first.game)
             => results[solver] = first.result)
    /\ [][solver' = solver => (dict' = dict /\ letter_to_words' = letter_to_words)]_vars

C7_Witness ==
    /\ phase = "returned"
    /\ solver = "ParallelBruteForce"
    /\ first.set
    /\ first.between
    /\ processed = first.game
    /\ Len(chunks) = 2
    /\ Cardinality(DOMAIN results[solver].word_to_points) = 2

(* C8: an indexed strategy asked for a center letter that no dictionary word
   contains returns the empty mapping. *)
C8_EmptyBucket ==
    (/\ solver \in Indexed
     /\ solver \in called
     /\ \A w \in dict : processed.center_letter \notin Range(w))
        => (phase = "returned" /\ results[solver] = GameResult(EmptyMap))

C8_Witness ==
    /\ solver = "ParallelLetterMap"
    /\ solver \in called
    /\ dict # {}
    /\ \A w \in dict : processed.center_letter \notin Range(w)
    /\ phase = "returned"
    /\ first.between

(* C9: a valid puzzle normalises to its center letter and the set of its
   non-center letters: every puzzle with the same center and the same letters
   in its list gives the same GameProcessed, the same letter_count (the number
   of distinct permitted letters) and the same result; the center letter is
   never among the non-center letters. *)
C9_Normalised ==
    processed # NoGame =>
        /\ processed.center_letter \notin processed.non_center_letters
        /\ \A g \in Games :
              SameLetters(g, game) =>
                  LET p == try_from(g) IN
                  /\ p.ok
                  /\ p.value = processed
                  /\ letter_count(p.value)
                        = Cardinality({g.center_letter} \cup Range(g.non_center_letters))
                  /\ phase = "returned" =>
                        \A order \in Orders(dict) :
                            results[solver] = BruteForce_solve(order, p.value, dict)

C9_Witness ==
    /\ phase = "returned"
    /\ Len(game.non_center_letters) = 2
    /\ game.non_center_letters[1] = game.non_center_letters[2]
    /\ \E w \in DOMAIN results[solver].word_to_points :
          results[solver].word_to_points[w] = 8

(* C10 as stated: each bucket of an indexed strategy holds the dictionary
   words containing its letter, and for every puzzle the words filed under the
   center letter are a strict superset of the valid words. *)
C10_StrictSuperset ==
    (solver \in Indexed /\ phase # "init") =>
        /\ \A l \in Letters : BucketSet(l) = {w \in dict : l \in Range(w)}
        /\ \A g \in GamesProcessed :
              /\ ValidWords(g, dict) \subseteq BucketSet(g.center_letter)
              /\ ValidWords(g, dict) # BucketSet(g.center_letter)

(* C10 as amended: each bucket of an indexed strategy holds the dictionary
   words containing its letter, and for every puzzle the words filed under the
   center letter are a superset of the valid words (not always a strict one). *)
C10_Superset ==
    (solver \in Indexed /\ phase # "init") =>
        /\ \A l \in Letters : BucketSet(l) = {w \in dict : l \in Range(w)}
        /\ \A g \in GamesProcessed :
              ValidWords(g, dict) \subseteq BucketSet(g.center_letter)

C10_Witness ==
    /\ solver = "ParallelLetterMap"
    /\ phase = "ready"
    /\ Cardinality(dict) = 2
    /\ \E l \in DOMAIN letter_to_words :
          Len(letter_to_words[l]) > Cardinality(Range(letter_to_words[l]))
    /\ \E g \in GamesProcessed :
          /\ ValidWords(g, dict) # {}
          /\ ValidWords(g, dict) # BucketSet(g.center_letter)

============================================================================
